---- MODULE Spec2Model ----
(***************************************************************************)
(* Model of the cloudfront_origin_pl Caddy module (cloudfront_origin_pl.go) *)
(* The Source keeps a published prefix list (current) behind an RWMutex,   *)
(* fills it with one synchronous pass in Provision and refreshes it from a *)
(* background goroutine driven by a ticker until stopCh is closed.         *)
(*                                                                         *)
(* Spec is Provision, the refresher and Cleanup over every configuration.  *)
(* For one configuration: SpecReaders has a GetIPRanges caller step by     *)
(* step against the passes, SpecAlias has callers that keep and overwrite  *)
(* the slices they got, with calls taken whole, and SpecStop is the host   *)
(* stopping a fairly scheduled refresher.                                  *)
(***************************************************************************)
EXTENDS Integers, Sequences, FiniteSets, TLC

\* ------------------------------------------------------------------ bounds
\* Most pages the provider serves for one list before it returns no token.
MaxPages == 2
\* Most entries the provider puts in one page.
MaxPageEntries == 2
\* Number of GetIPRanges callers.
NumReaders == 2

\* --------------------------------------------------------------- constants
\* A nil *string (absent Cidr, absent NextToken, absent PrefixListName).
NilPtr == "<nil>"

defaultRefresh == 12
defaultPLNameV4 == "com.amazonaws.global.cloudfront.origin-facing"
defaultPLNameV6 == "com.amazonaws.global.cloudfront.origin-facing-ipv6"

\* An explicitly configured prefix_list_id.
ExplicitID == "pl-explicit"

\* Panic values of the Go runtime.
NoPanic == "none"
PanicCloseClosed == "close of closed channel"
PanicTicker == "non-positive interval for NewTicker"

\* The goroutines that can run refreshOnce: Provision's caller and the
\* background refresher.
Owners == {"prov", "loop"}
Readers == 1..NumReaders

\* ------------------------------------------------------- provider universe
\* The Cidr values an entry can carry: nil, malformed text, and well-formed
\* text; two texts spell the same IPv6 range.
CidrTexts == {"10.0.0.0/8", "2001:db8::/32", "2001:DB8::/32", "10.0.0.0/33"}
EntryCidrs == CidrTexts \cup {NilPtr}

\* netip.ParsePrefix on the universe: address text is parsed to address
\* bytes (hex digits are case-insensitive), the bit count is range-checked
\* against the address family.
ParsePrefix(c) ==
    CASE c = "10.0.0.0/8"    -> [ok |-> TRUE,  addr |-> <<4, 10, 0, 0, 0>>, bits |-> 8]
      [] c = "2001:db8::/32" -> [ok |-> TRUE,  addr |-> <<6, 8193, 3512, 0>>, bits |-> 32]
      [] c = "2001:DB8::/32" -> [ok |-> TRUE,  addr |-> <<6, 8193, 3512, 0>>, bits |-> 32]
      [] OTHER               -> [ok |-> FALSE, addr |-> <<>>, bits |-> -1]

\* The netip.Prefix value of a parse result.
PrefixOf(p) == [addr |-> p.addr, bits |-> p.bits]

WellFormed == {c \in CidrTexts : ParsePrefix(c).ok}

\* ------------------------------------------------------------------- state
VARIABLES
    cfg,         \* the exported configuration fields of Source
    current,     \* s.current, the published prefix list
    curArr,      \* the backing array of s.current
    mu,          \* s.mu: [writer : BOOLEAN, readers : Nat]
    stopCh,      \* s.stopCh: "nil", "open" or "closed"
    hostPc,      \* where the host is with Provision
    provErr,     \* the error Provision returned
    loopPc,      \* where the background goroutine is
    tickPending, \* a tick is buffered in t.C
    pass,        \* per owner, the frame of its refreshOnce call
    rd,          \* per reader, the frame of its GetIPRanges call
    panicked     \* the panic that ended the process, or NoPanic

vars == <<cfg, current, curArr, mu, stopCh, hostPc, provErr, loopPc, tickPending,
          pass, rd, panicked>>


\* ------------------------------------------------------------ call frames
\* The zero netip.Prefix, what make([]netip.Prefix, n) fills a slice with.
ZeroPrefix == [addr |-> <<>>, bits |-> -1]

\* The frame of a refreshOnce call: its position, its locals (ids, the
\* index idx into ids, pageToken, the index k into out.Entries, seen, all)
\* and the error it returns; and what an observer of the call and of the
\* provider records:
\*   describes  the DescribeManagedPrefixLists calls made
\*   pages      the pages requested for the current list
\*   sent       the NextToken of the last page request for the current list
\*   failedAt   the index of the list whose page request failed, or 0
\*   served     the well-formed Cidr texts received, each once, in the
\*              order of their first receipt
\*   earlier    the well-formed texts the lists before the current one served
\*   cross      a list served a well-formed text an earlier list had served
\*   malformed  the call walked an entry whose Cidr is absent or malformed
\*   startCur   the published list when the call began
\*   installed  the call stored to s.current
IdlePass ==
    [pc |-> "idle", ids |-> <<>>, idx |-> 0, pageToken |-> NilPtr, k |-> 0,
     seen |-> {}, all |-> <<>>, err |-> "none",
     describes |-> 0, pages |-> 0, sent |-> NilPtr, failedAt |-> 0,
     served |-> <<>>, earlier |-> {}, cross |-> FALSE, malformed |-> FALSE,
     startCur |-> <<>>, installed |-> FALSE]

\* The elements of a sequence.
Range(q) == {q[i] : i \in 1..Len(q)}

NewPass(cur) == [IdlePass EXCEPT !.pc = "load", !.startCur = cur]

\* A refreshOnce call that has not returned yet.
InFlight(o) == pass[o].pc \notin {"idle", "ret"}

\* Backing arrays are told apart by a number: NoArray for a nil slice,
\* r for the array reader r's make allocated, a negative number for an
\* array that a refreshOnce call built and installed.
NoArray == 0

OwnArray(r) == r

InstalledArrays == {-a : a \in 1..(NumReaders + 1)}

\* The frame of a GetIPRanges call: position, len(s.current) as read by
\* make, the returned slice and its backing array.
IdleRead == [pc |-> "idle", n |-> 0, out |-> <<>>, arr |-> NoArray]

Alive == panicked = NoPanic

\* -------------------------------------------------------------------- Init
\* The configuration as the config loader leaves it: every field optional,
\* a configured name (the README's example names the default list), and
\* refresh any duration time.ParseDuration accepts (negative, unset or
\* zero, positive: the README's 12h), in hours.
RawConfigs ==
    [PrefixListID : {"", ExplicitID},
     PrefixListName : {"", defaultPLNameV4},
     IncludeIPv6 : BOOLEAN,
     RequireNonEmpty : BOOLEAN,
     Refresh : {-1, 0, 12}]

Init ==
    /\ cfg \in RawConfigs
    /\ current = <<>>
    /\ curArr = NoArray
    /\ mu = [writer |-> FALSE, readers |-> 0]
    /\ stopCh = "nil"
    /\ hostPc = "new"
    /\ provErr = "none"
    /\ loopPc = "none"
    /\ tickPending = FALSE
    /\ pass = [o \in Owners |-> IdlePass]
    /\ rd = [r \in Readers |-> IdleRead]
    /\ panicked = NoPanic

\* ------------------------------------------------------ Provision, part 1
\* Provision's defaulting of refresh and of the list name.
Normalize(c) ==
    [c EXCEPT
       !.Refresh = IF c.Refresh = 0 THEN defaultRefresh ELSE c.Refresh,
       !.PrefixListName = IF c.PrefixListID = "" /\ c.PrefixListName = ""
                          THEN defaultPLNameV4 ELSE c.PrefixListName]

\* Provision up to the call of refreshOnce.
ProvisionBegin ==
    /\ Alive
    /\ hostPc = "new"
    /\ cfg' = Normalize(cfg)
    /\ pass' = [pass EXCEPT !["prov"] = NewPass(current)]
    /\ hostPc' = "provisioning"
    /\ UNCHANGED <<current, curArr, mu, stopCh, provErr, loopPc, tickPending,
                   rd, panicked>>

\* ------------------------------------------------------------ refreshOnce
\* loadAWSConfig: the SDK either yields a config or an error.
LoadAWSConfig(o) ==
    /\ Alive
    /\ pass[o].pc = "load"
    /\ \E ok \in BOOLEAN :
         pass' = [pass EXCEPT ![o] =
                    IF ok THEN [@ EXCEPT !.pc = "resolve4"]
                    ELSE [@ EXCEPT !.pc = "ret", !.err = "config"]]
    /\ UNCHANGED <<cfg, current, curArr, mu, stopCh, hostPc, provErr, loopPc,
                   tickPending, rd, panicked>>

\* What DescribeManagedPrefixLists can answer for name n when the provider
\* knows the list under id: an error, or candidates whose name is n, a
\* longer name the filter also matched, or absent.
DescribeOutputs(n, id) ==
    LET other == [name |-> n \o "-extra", id |-> "pl-other"]
        match == [name |-> n, id |-> id]
        noId  == [name |-> n, id |-> NilPtr]
        noNm  == [name |-> NilPtr, id |-> id]
    IN  {[err |-> TRUE, lists |-> <<>>]} \cup
        {[err |-> FALSE, lists |-> l] :
            l \in {<<>>, <<other>>, <<match>>, <<other, match>>, <<noId>>, <<noNm>>}}

\* The scan of out.PrefixLists for the first exact name match with an id;
\* "" when there is none.
RECURSIVE ScanExact(_, _)
ScanExact(lists, n) ==
    IF lists = <<>> THEN ""
    ELSE LET pl == Head(lists)
         IN  IF pl.name # NilPtr /\ pl.name = n /\ pl.id # NilPtr
             THEN pl.id
             ELSE ScanExact(Tail(lists), n)

\* A resolvePrefixListID that looks every list up by name.
NeverUsesExplicitID(explicitID) == FALSE

\* Whether resolvePrefixListID returns the explicit id without a lookup.
UsesExplicitID(explicitID) == explicitID # ""

\* The name resolvePrefixListID looks up.
LookupName(name, defaultName) == IF name = "" THEN defaultName ELSE name

\* pageTokenOrNil: an empty or nil token is sent as nil.
pageTokenOrNil(t) == IF t = NilPtr \/ t = "" THEN NilPtr ELSE t

\* A loop over ids that makes a fresh seen map for every list.
BeginListResetSeen(f, i) ==
    IF i > Len(f.ids)
    THEN [f EXCEPT !.pc = "final", !.idx = 0, !.pageToken = NilPtr, !.pages = 0,
                   !.sent = NilPtr, !.earlier = {}]
    ELSE [f EXCEPT !.pc = "fetch", !.idx = i, !.pageToken = "", !.pages = 0,
                   !.sent = NilPtr, !.earlier = Range(f.served), !.seen = {}]

\* The frame at the head of the loop over ids: list i is fetched from
\* pageToken = aws.String(""); past the last id the loop is left and its
\* variables (the index, pageToken) go out of scope.
BeginList(f, i) ==
    IF i > Len(f.ids)
    THEN [f EXCEPT !.pc = "final", !.idx = 0, !.pageToken = NilPtr, !.pages = 0,
                   !.sent = NilPtr, !.earlier = {}]
    ELSE [f EXCEPT !.pc = "fetch", !.idx = i, !.pageToken = "", !.pages = 0,
                   !.sent = NilPtr, !.earlier = Range(f.served)]

\* A refreshOnce that returns the error of a failed resolution.
AfterResolveReturnError(f, id, next) ==
    IF id = "" THEN [f EXCEPT !.pc = "ret", !.err = "resolve"]
    ELSE IF next = "fetch" THEN BeginList([f EXCEPT !.ids = Append(@, id)], 1)
    ELSE [f EXCEPT !.ids = Append(@, id), !.pc = next]

\* The frame after resolvePrefixListID returned id, "" for an error: the
\* error is logged and the list left out, an id is appended to ids; the
\* call goes on to the next resolution or to the first list.
AfterResolve(f, id, next) ==
    LET f1 == [f EXCEPT !.ids = IF id # "" THEN Append(@, id) ELSE @]
    IN  IF next = "fetch" THEN BeginList(f1, 1) ELSE [f1 EXCEPT !.pc = next]

\* One resolvePrefixListID call and the append of its result to ids.
Resolve(o, from, explicitID, name, defaultName, providerID, next) ==
    /\ Alive
    /\ pass[o].pc = from
    /\ \E out \in DescribeOutputs(LookupName(name, defaultName), providerID) :
         LET called == ~UsesExplicitID(explicitID)
             id == IF ~called THEN explicitID
                   ELSE IF out.err THEN ""
                   ELSE ScanExact(out.lists, LookupName(name, defaultName))
             f1 == [pass[o] EXCEPT !.describes = IF called THEN @ + 1 ELSE @]
         IN  pass' = [pass EXCEPT ![o] = AfterResolve(f1, id, next)]
    /\ UNCHANGED <<cfg, current, curArr, mu, stopCh, hostPc, provErr, loopPc,
                   tickPending, rd, panicked>>

ResolveV4(o) ==
    Resolve(o, "resolve4", cfg.PrefixListID, cfg.PrefixListName, defaultPLNameV4,
            "pl-v4", IF cfg.IncludeIPv6 THEN "resolve6" ELSE "fetch")

ResolveV6(o) ==
    Resolve(o, "resolve6", "", defaultPLNameV6, defaultPLNameV6, "pl-v6", "fetch")

\* The continuation tokens the provider can return with page k of a list:
\* none, an empty one, or the token of page k + 1.
NextTokens(k) == {NilPtr, ""} \cup (IF k < MaxPages THEN {ToString(k + 1)} ELSE {})

\* A page loop that breaks on a failed request and goes on to the next list.
OnPageErrorBreak(f) == BeginList(f, f.idx + 1)

\* The frame after a failed page request: refreshOnce returns the error.
OnPageError(f) ==
    [f EXCEPT !.pc = "ret", !.err = "fetch", !.idx = 0, !.pageToken = NilPtr,
              !.pages = 0, !.sent = NilPtr, !.earlier = {}]

\* One GetManagedPrefixListEntries request for list ids[idx], with
\* NextToken = pageTokenOrNil(pageToken): it fails, or answers with a page
\* whose entries the loop over out.Entries then walks.
FetchPage(o) ==
    /\ Alive
    /\ pass[o].pc = "fetch"
    /\ \E ok \in BOOLEAN :
         pass' = [pass EXCEPT ![o] =
                    IF ok THEN [@ EXCEPT !.pc = "entries", !.pages = @ + 1,
                                         !.sent = pageTokenOrNil(pass[o].pageToken)]
                    ELSE OnPageError([@ EXCEPT !.sent = pageTokenOrNil(pass[o].pageToken),
                                               !.failedAt = pass[o].idx])]
    /\ UNCHANGED <<cfg, current, curArr, mu, stopCh, hostPc, provErr, loopPc,
                   tickPending, rd, panicked>>

\* An entry loop that takes the text of a malformed Cidr for a prefix.
AddEntryKeepsMalformed(f, c) ==
    IF c = NilPtr \/ c \in f.seen
    THEN f
    ELSE [f EXCEPT !.all = Append(@, PrefixOf(ParsePrefix(c))), !.seen = @ \cup {c}]

\* The body of the loop over out.Entries for an entry with Cidr c: skip a
\* nil, an already seen or a malformed Cidr, else append the parsed prefix
\* and mark the text seen.
AddEntry(f, c) ==
    IF c = NilPtr \/ c \in f.seen \/ ~ParsePrefix(c).ok
    THEN f
    ELSE [f EXCEPT !.all = Append(@, PrefixOf(ParsePrefix(c))), !.seen = @ \cup {c}]

\* The provider's side of an entry with Cidr c: what the observer records.
Receive(f, c) ==
    IF c \notin WellFormed THEN [f EXCEPT !.malformed = TRUE]
    ELSE [f EXCEPT !.served = IF c \in Range(@) THEN @ ELSE Append(@, c),
                   !.cross = @ \/ c \in f.earlier]

\* The next entry of the page, of at most MaxPageEntries, is walked.
ProcessEntry(o) ==
    /\ Alive
    /\ pass[o].pc = "entries"
    /\ pass[o].k < MaxPageEntries
    /\ \E c \in EntryCidrs :
         pass' = [pass EXCEPT ![o] = [AddEntry(Receive(@, c), c) EXCEPT !.k = @ + 1]]
    /\ UNCHANGED <<cfg, current, curArr, mu, stopCh, hostPc, provErr, loopPc,
                   tickPending, rd, panicked>>

\* A page loop that asks for the next page without the token it was given.
AfterPageDropsToken(f, next) ==
    IF next = NilPtr \/ next = ""
    THEN BeginList(f, f.idx + 1)
    ELSE [f EXCEPT !.pc = "fetch"]

\* The frame after a page was walked: leave the list's loop on an absent or
\* empty NextToken, else ask for the next page with it.
AfterPage(f, next) ==
    IF next = NilPtr \/ next = ""
    THEN BeginList(f, f.idx + 1)
    ELSE [f EXCEPT !.pc = "fetch", !.pageToken = next]

\* The page has no more entries: out.NextToken decides what follows.
EndPage(o) ==
    /\ Alive
    /\ pass[o].pc = "entries"
    /\ \E next \in NextTokens(pass[o].pages) :
         pass' = [pass EXCEPT ![o] = AfterPage([@ EXCEPT !.k = 0], next)]
    /\ UNCHANGED <<cfg, current, curArr, mu, stopCh, hostPc, provErr, loopPc,
                   tickPending, rd, panicked>>

\* sync.RWMutex: RLock waits for a writer, Lock waits for everybody.
CanRLock == ~mu.writer
CanLockIgnoreReaders == ~mu.writer
CanLock == ~mu.writer /\ mu.readers = 0

\* A refreshOnce that installs whatever it fetched, empty or not.
DecideDropFallback(f, prev, requireNonEmpty) ==
    IF Len(f.all) = 0 /\ Len(prev) = 0 /\ requireNonEmpty
    THEN [f EXCEPT !.pc = "ret", !.err = "empty"]
    ELSE [f EXCEPT !.pc = "lock"]

\* A refreshOnce that never looks at RequireNonEmpty.
DecideIgnoreRequire(f, prev, requireNonEmpty) ==
    IF Len(f.all) = 0 /\ Len(prev) # 0
    THEN [f EXCEPT !.pc = "ret"]
    ELSE [f EXCEPT !.pc = "lock"]

\* A refreshOnce that fails on every empty result when RequireNonEmpty is
\* set, whatever is published.
DecideAlwaysStrict(f, prev, requireNonEmpty) ==
    IF Len(f.all) = 0
    THEN IF requireNonEmpty
         THEN [f EXCEPT !.pc = "ret", !.err = "empty"]
         ELSE IF Len(prev) = 0
         THEN [f EXCEPT !.pc = "lock"]
         ELSE [f EXCEPT !.pc = "ret"]
    ELSE [f EXCEPT !.pc = "lock"]

\* The branch refreshOnce takes once the lists are fetched, given the
\* published list prev that snapshot() returned.
Decide(f, prev, requireNonEmpty) ==
    IF Len(f.all) = 0
    THEN IF Len(prev) = 0 /\ requireNonEmpty
         THEN [f EXCEPT !.pc = "ret", !.err = "empty"]
         ELSE IF Len(prev) = 0
         THEN [f EXCEPT !.pc = "lock"]
         ELSE [f EXCEPT !.pc = "ret"]
    ELSE [f EXCEPT !.pc = "lock"]

\* len(all) == 0 and what follows up to the return or to s.mu.Lock();
\* snapshot() takes the read lock only when all is empty.
Finalize(o) ==
    /\ Alive
    /\ pass[o].pc = "final"
    /\ Len(pass[o].all) = 0 => CanRLock
    /\ pass' = [pass EXCEPT ![o] = Decide(@, current, cfg.RequireNonEmpty)]
    /\ UNCHANGED <<cfg, current, curArr, mu, stopCh, hostPc, provErr, loopPc,
                   tickPending, rd, panicked>>

\* s.mu.Lock()
Lock(o) ==
    /\ Alive
    /\ pass[o].pc = "lock"
    /\ CanLock
    /\ mu' = [mu EXCEPT !.writer = TRUE]
    /\ pass' = [pass EXCEPT ![o].pc = "store"]
    /\ UNCHANGED <<cfg, current, curArr, stopCh, hostPc, provErr, loopPc,
                   tickPending, rd, panicked>>

\* The slice refreshOnce assigns to s.current: nil for an empty all.
Installed(f) == IF Len(f.all) = 0 THEN <<>> ELSE f.all

\* The array under the slice all: append allocated it within this call, so
\* it is none of the arrays a returned slice still refers to.
FreshArray ==
    CHOOSE a \in InstalledArrays :
        /\ \A r \in Readers : rd[r].arr # a
        /\ \A b \in InstalledArrays : (\A r \in Readers : rd[r].arr # b) => b <= a

\* A missing s.mu.Unlock(): the write lock stays held after the store.
UnlockMissing(m) == m

\* s.mu.Unlock() by the holder of the write lock.
Unlock(m) == [m EXCEPT !.writer = FALSE]

\* s.current = ...; s.mu.Unlock(); return nil
Store(o) ==
    /\ Alive
    /\ pass[o].pc = "store"
    /\ current' = Installed(pass[o])
    /\ curArr' = IF Len(pass[o].all) = 0 THEN NoArray ELSE FreshArray
    /\ mu' = Unlock(mu)
    /\ pass' = [pass EXCEPT ![o].pc = "ret", ![o].installed = TRUE]
    /\ UNCHANGED <<cfg, stopCh, hostPc, provErr, loopPc, tickPending, rd, panicked>>

\* ------------------------------------------------------ Provision, part 2
\* A Provision that starts the initial pass without waiting for it.
InitialPassNotAwaited == TRUE

\* Provision goes on when its synchronous refreshOnce call has returned.
InitialPassReturned == pass["prov"].pc = "ret"

\* The error Provision returns after the initial pass, "none" for nil.
ProvisionResult(f, cur, requireNonEmpty) ==
    IF f.err # "none" THEN f.err
    ELSE IF Len(cur) = 0 /\ requireNonEmpty THEN "noprefixes"
    ELSE "none"

\* Provision from the return of refreshOnce: return its error, or check
\* the snapshot, make stopCh, start the goroutine and return nil.
ProvisionReturn ==
    /\ Alive
    /\ hostPc = "provisioning"
    /\ InitialPassReturned
    /\ CanRLock
    /\ LET res == ProvisionResult(pass["prov"], current, cfg.RequireNonEmpty)
       IN  /\ provErr' = res
           /\ hostPc' = IF res = "none" THEN "provisioned" ELSE "failed"
           /\ stopCh' = IF res = "none" THEN "open" ELSE stopCh
           /\ loopPc' = IF res = "none" THEN "spawned" ELSE loopPc
    /\ pass' = [pass EXCEPT !["prov"] = IF @.pc = "ret" THEN IdlePass ELSE @]
    /\ UNCHANGED <<cfg, current, curArr, mu, tickPending, rd, panicked>>

\* ----------------------------------------------------------------- Cleanup
\* Cleanup closes stopCh unless it is nil; closing a closed channel panics.
\* The host calls it at any time outside Provision, any number of times.
Cleanup ==
    /\ Alive
    /\ hostPc # "provisioning"
    /\ stopCh' = IF stopCh = "open" THEN "closed" ELSE stopCh
    /\ panicked' = IF stopCh = "closed" THEN PanicCloseClosed ELSE panicked
    /\ UNCHANGED <<cfg, current, curArr, mu, hostPc, provErr, loopPc, tickPending, pass, rd>>

\* ------------------------------------------------- background goroutine
\* time.NewTicker panics on a non-positive duration.
TickerPanics(d) == d <= 0

\* The goroutine's start: t := time.NewTicker(time.Duration(s.Refresh)).
LoopStart ==
    /\ Alive
    /\ loopPc = "spawned"
    /\ IF TickerPanics(cfg.Refresh)
       THEN panicked' = PanicTicker /\ loopPc' = loopPc
       ELSE panicked' = panicked /\ loopPc' = "select"
    /\ UNCHANGED <<cfg, current, curArr, mu, stopCh, hostPc, provErr, tickPending, pass, rd>>

\* The ticker fires: t.C holds one tick, further ticks are dropped until it
\* is received. The ticker runs until the goroutine's deferred t.Stop().
Tick ==
    /\ Alive
    /\ loopPc \in {"select", "pass"}
    /\ ~tickPending
    /\ tickPending' = TRUE
    /\ UNCHANGED <<cfg, current, curArr, mu, stopCh, hostPc, provErr, loopPc, pass, rd, panicked>>

\* select, case <-t.C: call refreshOnce. select picks any ready case.
LoopTick ==
    /\ Alive
    /\ loopPc = "select"
    /\ tickPending
    /\ tickPending' = FALSE
    /\ pass' = [pass EXCEPT !["loop"] = NewPass(current)]
    /\ loopPc' = "pass"
    /\ UNCHANGED <<cfg, current, curArr, mu, stopCh, hostPc, provErr, rd, panicked>>

\* select, case <-s.stopCh: return.
LoopStop ==
    /\ Alive
    /\ loopPc = "select"
    /\ stopCh = "closed"
    /\ loopPc' = "exited"
    /\ UNCHANGED <<cfg, current, curArr, mu, stopCh, hostPc, provErr, tickPending, pass, rd, panicked>>

\* The loop goes back to select when its refreshOnce call has returned.
LoopPassReturned == pass["loop"].pc = "ret"

\* A loop that returns when a pass fails.
AfterLoopPassExitOnError(f) == IF f.err # "none" THEN "exited" ELSE "select"

\* Where the loop goes after a pass: its error is dropped.
AfterLoopPass(f) == "select"

\* _ = s.refreshOnce(...): the error is dropped and the loop selects again.
LoopPassReturn ==
    /\ Alive
    /\ loopPc = "pass"
    /\ LoopPassReturned
    /\ loopPc' = AfterLoopPass(pass["loop"])
    /\ pass' = [pass EXCEPT !["loop"] = IF @.pc = "ret" THEN IdlePass ELSE @]
    /\ UNCHANGED <<cfg, current, curArr, mu, stopCh, hostPc, provErr, tickPending, rd, panicked>>

\* ------------------------------------------------------------- GetIPRanges
\* A request arrives and Caddy calls GetIPRanges.
ReadCall(r) ==
    /\ Alive
    /\ rd[r].pc = "idle"
    /\ rd' = [rd EXCEPT ![r] = [IdleRead EXCEPT !.pc = "call"]]
    /\ UNCHANGED <<cfg, current, curArr, mu, stopCh, hostPc, provErr, loopPc,
                   tickPending, pass, panicked>>

\* s.mu.RLock()
ReadRLock(r) ==
    /\ Alive
    /\ rd[r].pc = "call"
    /\ CanRLock
    /\ mu' = [mu EXCEPT !.readers = @ + 1]
    /\ rd' = [rd EXCEPT ![r].pc = "locked"]
    /\ UNCHANGED <<cfg, current, curArr, stopCh, hostPc, provErr, loopPc,
                   tickPending, pass, panicked>>

\* out := make([]netip.Prefix, len(s.current))
ReadMake(r) ==
    /\ Alive
    /\ rd[r].pc = "locked"
    /\ rd' = [rd EXCEPT ![r].pc = "made", ![r].n = Len(current),
                         ![r].arr = OwnArray(r)]
    /\ UNCHANGED <<cfg, current, curArr, mu, stopCh, hostPc, provErr, loopPc,
                   tickPending, pass, panicked>>

\* copy(dst, src) for a zeroed dst of length n: the first min(n, len(src))
\* elements are src's.
CopyInto(n, src) == [i \in 1..n |-> IF i <= Len(src) THEN src[i] ELSE ZeroPrefix]

\* A GetIPRanges that hands out s.current itself.
ReturnedPublished(own, published) == published

\* The array under the slice GetIPRanges returns: the one its make
\* allocated, given also the array under s.current.
Returned(own, published) == own

\* copy(out, s.current); RUnlock (deferred); return out
ReadCopyReturn(r) ==
    /\ Alive
    /\ rd[r].pc = "made"
    /\ rd' = [rd EXCEPT ![r].pc = "idle",
                         ![r].out = CopyInto(rd[r].n, current),
                         ![r].arr = Returned(rd[r].arr, curArr)]
    /\ mu' = [mu EXCEPT !.readers = @ - 1]
    /\ UNCHANGED <<cfg, current, curArr, stopCh, hostPc, provErr, loopPc,
                   tickPending, pass, panicked>>

\* GetIPRanges from call to return as one step: the read lock is held from
\* its first statement to its return, so no install falls in between.
GetIPRanges(r) ==
    /\ Alive
    /\ rd[r].pc = "idle"
    /\ CanRLock
    /\ rd' = [rd EXCEPT ![r] = [pc |-> "idle", n |-> Len(current),
                                out |-> CopyInto(Len(current), current),
                                arr |-> Returned(OwnArray(r), curArr)]]
    /\ UNCHANGED <<cfg, current, curArr, mu, stopCh, hostPc, provErr, loopPc,
                   tickPending, pass, panicked>>

\* What a slice over an array reads once a caller has overwritten every
\* element of the array with the zero Prefix.
Overwritten(q) == [i \in 1..Len(q) |-> ZeroPrefix]

\* The caller of a returned GetIPRanges call writes into the slice it got:
\* every slice over the same array reads the written elements.
CallerMutate(r) ==
    /\ Alive
    /\ rd[r].pc = "idle"
    /\ Len(rd[r].out) > 0
    /\ rd[r].out # Overwritten(rd[r].out)
    /\ rd' = [r2 \in Readers |->
                IF rd[r2].pc = "idle" /\ rd[r2].arr = rd[r].arr
                THEN [rd[r2] EXCEPT !.out = Overwritten(@)]
                ELSE rd[r2]]
    /\ current' = IF curArr = rd[r].arr THEN Overwritten(current) ELSE current
    /\ UNCHANGED <<cfg, curArr, mu, stopCh, hostPc, provErr, loopPc,
                   tickPending, pass, panicked>>

\* ------------------------------------------------------------------- Next
PassStep ==
    \E o \in Owners :
        \/ LoadAWSConfig(o)
        \/ ResolveV4(o)
        \/ ResolveV6(o)
        \/ FetchPage(o)
        \/ ProcessEntry(o)
        \/ EndPage(o)
        \/ Finalize(o)
        \/ Lock(o)
        \/ Store(o)

\* The steps of GetIPRanges for reader r.
ReaderStep(r) ==
    \/ ReadCall(r)
    \/ ReadRLock(r)
    \/ ReadMake(r)
    \/ ReadCopyReturn(r)

ReadStep == \E r \in Readers : ReaderStep(r)

Next ==
    \/ ProvisionBegin
    \/ ProvisionReturn
    \/ Cleanup
    \/ LoopStart
    \/ Tick
    \/ LoopTick
    \/ LoopStop
    \/ LoopPassReturn
    \/ PassStep
    \/ ReadStep
    \/ \E r \in Readers : CallerMutate(r)

\* The program without requests: Provision, the refresher and Cleanup.
NextRefresh ==
    \/ ProvisionBegin
    \/ ProvisionReturn
    \/ Cleanup
    \/ LoopStart
    \/ Tick
    \/ LoopTick
    \/ LoopStop
    \/ LoopPassReturn
    \/ PassStep

Spec == Init /\ [][NextRefresh]_vars

\* The program serving requests, for one configuration: the IPv4 list
\* looked up by its default name, without the IPv6 list, the default
\* refresh, empty lists accepted.
InitReaders ==
    /\ Init
    /\ cfg = [PrefixListID |-> "", PrefixListName |-> "",
              IncludeIPv6 |-> FALSE, RequireNonEmpty |-> FALSE, Refresh |-> 0]

\* The steps of refreshOnce when IncludeIPv6 is false.
PassStepV4 ==
    \E o \in Owners :
        \/ LoadAWSConfig(o)
        \/ ResolveV4(o)
        \/ FetchPage(o)
        \/ ProcessEntry(o)
        \/ EndPage(o)
        \/ Finalize(o)
        \/ Lock(o)
        \/ Store(o)

\* Requests, one at a time, against a running refresher that the host
\* does not stop: the steps of reader 1 interleave with those of a pass.
NextReaders ==
    \/ ProvisionBegin
    \/ ProvisionReturn
    \/ LoopStart
    \/ Tick
    \/ LoopTick
    \/ LoopPassReturn
    \/ PassStepV4
    \/ ReaderStep(1)

SpecReaders == InitReaders /\ [][NextReaders]_vars

\* The host stopping a refresher whose scheduling is fair, for the
\* configuration of InitReaders: a call to the provider returns, a pass
\* that can step does, the goroutine starts, and a select that finds
\* stopCh closed again and again takes that case at some time (select
\* picks at random among its ready cases).
NextStop ==
    \/ ProvisionBegin
    \/ ProvisionReturn
    \/ Cleanup
    \/ LoopStart
    \/ Tick
    \/ LoopTick
    \/ LoopStop
    \/ LoopPassReturn
    \/ PassStepV4

SpecStop ==
    /\ InitReaders
    /\ [][NextStop]_vars
    /\ WF_vars(PassStepV4)
    /\ WF_vars(LoopStart)
    /\ WF_vars(LoopPassReturn)
    /\ SF_vars(LoopStop)

\* The parsed prefixes of a sequence of well-formed texts, in its order.
ParsedInOrder(texts) == [i \in 1..Len(texts) |-> PrefixOf(ParsePrefix(texts[i]))]

\* What the page loops of one refreshOnce call can leave in all: the
\* prefixes of distinct well-formed texts, in the order served.
Fetchable ==
    {ParsedInOrder(t) :
       t \in {q \in UNION {[1..n -> WellFormed] : n \in 0..Cardinality(WellFormed)} :
                \A i, j \in 1..Len(q) : i # j => q[i] # q[j]}}

\* refreshOnce from call to return as one step: it fails at a provider
\* call, or decides on what it fetched and stores it under the write lock.
RefreshOnce(o) ==
    /\ Alive
    /\ pass[o].pc = "load"
    /\ CanLock
    /\ \/ /\ \E e \in {"config", "fetch"} :
                pass' = [pass EXCEPT ![o].pc = "ret", ![o].err = e]
          /\ UNCHANGED <<current, curArr>>
       \/ \E a \in Fetchable :
            LET f == Decide([pass[o] EXCEPT !.all = a], current, cfg.RequireNonEmpty)
            IN  IF f.pc = "lock"
                THEN /\ current' = Installed(f)
                     /\ curArr' = IF Len(a) = 0 THEN NoArray ELSE FreshArray
                     /\ pass' = [pass EXCEPT ![o] =
                                   [f EXCEPT !.pc = "ret", !.installed = TRUE]]
                ELSE /\ pass' = [pass EXCEPT ![o] = f]
                     /\ UNCHANGED <<current, curArr>>
    /\ UNCHANGED <<cfg, mu, stopCh, hostPc, provErr, loopPc, tickPending, rd,
                   panicked>>

\* Callers that keep the slice GetIPRanges returned and write into it,
\* against the running refresher, with each call taken as one step.
NextAlias ==
    \/ ProvisionBegin
    \/ ProvisionReturn
    \/ LoopStart
    \/ Tick
    \/ LoopTick
    \/ LoopPassReturn
    \/ \E o \in Owners : RefreshOnce(o)
    \/ \E r \in Readers : GetIPRanges(r)
    \/ \E r \in Readers : CallerMutate(r)

SpecAlias == InitReaders /\ [][NextAlias]_vars


\* ================================================================== claims
\* A refreshOnce call that got through resolution and fetching without an
\* error and accumulated no prefix, and has returned.
FetchedNone(o) ==
    /\ pass[o].pc = "ret"
    /\ pass[o].err \notin {"config", "fetch"}
    /\ Len(pass[o].all) = 0

C2_Pass ==
    \A o \in Owners :
        (FetchedNone(o) /\ pass[o].startCur = <<>>)
            => IF cfg.RequireNonEmpty
               THEN pass[o].err = "empty" /\ ~pass[o].installed /\ current = <<>>
               ELSE pass[o].err = "none" /\ pass[o].installed /\ current = <<>>

C2_Provision ==
    (hostPc = "provisioning" /\ hostPc' # "provisioning"
        /\ FetchedNone("prov") /\ pass["prov"].startCur = <<>>)
      => IF cfg.RequireNonEmpty
         THEN hostPc' = "failed" /\ provErr' = "empty"
              /\ stopCh' = "nil" /\ loopPc' = "none"
         ELSE hostPc' = "provisioned" /\ provErr' = "none"
              /\ stopCh' = "open" /\ loopPc' = "spawned"

C2_StrictEmptyAtBootstrap == []C2_Pass /\ [][C2_Provision]_vars

C2_Witness ==
    /\ cfg.RequireNonEmpty
    /\ hostPc = "failed"
    /\ provErr = "empty"
    /\ loopPc = "none"

\* C3: once a page request of a pass has failed, on whichever list, the pass
\* has returned the fetch error, makes no further step, has stored nothing,
\* and the published list is the one from before the pass.
C3_FailedPageAborts ==
    \A o \in Owners :
        pass[o].failedAt # 0
            => /\ pass[o].pc = "ret"
               /\ pass[o].err = "fetch"
               /\ ~pass[o].installed
               /\ current = pass[o].startCur

C3_Witness ==
    \E o \in Owners :
        /\ pass[o].failedAt = 2
        /\ pass[o].all # <<>>
        /\ pass[o].all # current

\* C4: the slice a GetIPRanges call returns is exactly the list published
\* at the moment of its return, whole.
C4_AtomicVisibility ==
    [][\A r \in Readers :
         (rd[r].pc = "made" /\ rd'[r].pc = "idle")
            => (rd'[r].out = current /\ current' = current)]_vars

C4_Witness ==
    \E r \in Readers, o \in Owners :
        /\ rd[r].pc = "made"
        /\ pass[o].pc = "lock"
        /\ current # <<>>
        /\ Len(pass[o].all) # rd[r].n

\* C5: Cleanup never panics, however often and whenever it is called.
C5_CleanupNeverFaults == panicked # PanicCloseClosed

\* C6: once stopCh is closed the published list is never replaced.
C6_NoInstallAfterStop == [][stopCh = "closed" => current' = current]_vars

\* C7: at most one refreshOnce call is in flight: the initial one has
\* returned before the refresher exists, and the refresher is inside a pass
\* whenever its pass is in flight, so it receives no tick meanwhile.
C7_SingleFlight ==
    /\ Cardinality({o \in Owners : InFlight(o)}) <= 1
    /\ loopPc # "none" => ~InFlight("prov")
    /\ loopPc # "pass" => ~InFlight("loop")

C7_Witness ==
    /\ loopPc = "pass"
    /\ InFlight("loop")
    /\ tickPending

\* C8: a periodic pass that returned an error stored nothing, the published
\* list is the one from before the pass, the refresher is still running,
\* and it goes back to its select, where a pending tick starts a new pass.
C8_FailedPass ==
    (pass["loop"].pc = "ret" /\ pass["loop"].err # "none")
        => /\ ~pass["loop"].installed
           /\ current = pass["loop"].startCur
           /\ loopPc = "pass"

C8_LoopGoesOn ==
    (pass["loop"].pc = "ret" /\ pass["loop"].err # "none" /\ pass'["loop"].pc # "ret")
        => /\ loopPc' = "select"
           /\ current' = current
           /\ panicked' = NoPanic

C8_TickStartsPass == (Alive /\ loopPc = "select" /\ tickPending) => ENABLED LoopTick

C8_PeriodicFailureIsSwallowed ==
    [](C8_FailedPass /\ C8_TickStartsPass) /\ [][C8_LoopGoesOn]_vars

C8_Witness ==
    /\ pass["loop"].pc = "ret"
    /\ pass["loop"].err = "fetch"
    /\ pass["loop"].all # <<>>
    /\ current # <<>>
    /\ tickPending
    /\ stopCh = "open"

\* The ids of a pass are resolved.
Resolved(o) ==
    \/ pass[o].pc \in {"fetch", "entries", "final", "lock", "store"}
    \/ pass[o].pc = "ret" /\ pass[o].err # "config"

\* C9 as claimed: with an explicit prefix list id a pass makes no
\* DescribeManagedPrefixLists call, whatever the other options.
C9_NoLookupWithExplicitID ==
    \A o \in Owners : cfg.PrefixListID # "" => pass[o].describes = 0

\* C9 as amended: with an explicit prefix list id the IPv4 list is resolved
\* without a DescribeManagedPrefixLists call; a pass makes no such call when
\* IncludeIPv6 is false and exactly one, for the IPv6 list, when it is true.
C9_ExplicitIDSkipsV4Lookup ==
    \A o \in Owners :
        cfg.PrefixListID # ""
            => pass[o].describes = IF cfg.IncludeIPv6 /\ Resolved(o) THEN 1 ELSE 0

C9_Witness ==
    \E o \in Owners :
        /\ cfg.PrefixListID # ""
        /\ cfg.IncludeIPv6
        /\ pass[o].pc = "ret"
        /\ pass[o].installed
        /\ pass[o].describes = 1

\* The prefixes pfxs are the parses of the texts, one element per text.
OnePerText(pfxs, texts) ==
    /\ Len(pfxs) = Len(texts)
    /\ \A c \in Range(texts) :
         Cardinality({i \in 1..Len(pfxs) : pfxs[i] = PrefixOf(ParsePrefix(c))})
           = Cardinality({d \in Range(texts) : ParsePrefix(d) = ParsePrefix(c)})

\* C10: the prefixes a pass accumulates, and the list it installs, hold one
\* element per distinct well-formed Cidr text received in the pass, over
\* all its lists and pages.
C10_DedupByCidrText ==
    \A o \in Owners :
        /\ OnePerText(pass[o].all, pass[o].served)
        /\ (pass[o].pc = "ret" /\ pass[o].installed) => current = pass[o].all

C10_Witness ==
    \E o \in Owners :
        /\ pass[o].pc = "ret"
        /\ pass[o].installed
        /\ pass[o].cross
        /\ Len(current) >= 2

\* C11: the prefixes of the published list are pairwise distinct as parsed
\* values (address and mask length), also when the provider serves one
\* range under two spellings in a pass.
C11_DistinctByCanonicalForm ==
    \A i, j \in 1..Len(current) : i # j => current[i] # current[j]

\* C12: the sequence a GetIPRanges call returned is independent of the
\* store and of the sequences other calls returned: a step that changes a
\* returned sequence changes neither the published list nor the sequence
\* any other call returned, and a step that changes the published list
\* changes no returned sequence.
C12_ReturnedIndependent ==
    [][/\ \A r \in Readers :
            (rd[r].pc = "idle" /\ rd'[r].pc = "idle" /\ rd'[r].out # rd[r].out)
                => /\ current' = current
                   /\ \A r2 \in Readers \ {r} : rd'[r2].out = rd[r2].out
       /\ current' # current
            => \A r \in Readers : rd[r].pc = "idle" => rd'[r].out = rd[r].out]_vars

C12_Witness ==
    \E r, r2 \in Readers :
        /\ r # r2
        /\ Len(rd[r].out) > 0
        /\ rd[r].out = Overwritten(rd[r].out)
        /\ Len(rd[r2].out) = Len(rd[r].out)
        /\ rd[r2].out # rd[r].out
        /\ current = rd[r2].out

\* A refreshOnce call that is at a call to the provider: the credential
\* load, DescribeManagedPrefixLists or GetManagedPrefixListEntries.
NetworkPhase(o) == pass[o].pc \in {"load", "resolve4", "resolve6", "fetch"}

\* C13: a reader never waits on the network activity of a pass. The write
\* lock is held only by a pass that is at its store, never by one at a
\* provider call; while a pass is at a provider call, a GetIPRanges call
\* that has been made can take the read lock, and a call that holds the
\* read lock can go on to its return.
C13_ReadersNeverWaitOnNetwork ==
    /\ mu.writer => \E o \in Owners : pass[o].pc = "store"
    /\ \A o \in Owners :
         NetworkPhase(o) =>
            /\ ~mu.writer
            /\ \A r \in Readers :
                 /\ rd[r].pc = "call" => ENABLED ReadRLock(r)
                 /\ rd[r].pc = "locked" => ENABLED ReadMake(r)
                 /\ rd[r].pc = "made" => ENABLED ReadCopyReturn(r)

C13_Witness ==
    \E o \in Owners, r \in Readers :
        /\ pass[o].pc = "fetch"
        /\ pass[o].describes = 1
        /\ rd[r].pc = "made"
        /\ rd[r].n > 0

\* A refreshOnce call with include_ipv6 that has resolved the IPv4 list
\* and not the IPv6 list, and is past resolution.
V6Omitted(o) ==
    /\ cfg.IncludeIPv6
    /\ pass[o].pc \in {"fetch", "entries", "final", "lock", "store", "ret"}
    /\ pass[o].err # "config"
    /\ Len(pass[o].ids) = 1
    /\ pass[o].ids[1] # "pl-v6"

\* The resolution of the IPv6 list sets no error: with the list not
\* resolved, ids is left as it is and the call goes on to the first list.
C14_ResolveV6(o) ==
    (pass[o].pc = "resolve6" /\ pass'[o].pc # "resolve6"
        /\ "pl-v6" \notin Range(pass'[o].ids))
    => /\ pass'[o].err = "none"
       /\ pass'[o].ids = pass[o].ids
       /\ pass'[o].ids # <<>> => (pass'[o].pc = "fetch" /\ pass'[o].idx = 1)

\* With the IPv6 list left out, a call that fetched the IPv4 list without
\* a failed request and got a prefix has installed what it fetched and
\* returned nil.
C14_Installs(o) ==
    (V6Omitted(o) /\ pass[o].pc = "ret" /\ pass[o].err # "fetch"
        /\ Len(pass[o].all) > 0)
    => /\ pass[o].err = "none"
       /\ pass[o].installed
       /\ current = pass[o].all

\* C14: with include_ipv6, a failure to resolve the IPv6 list does not
\* fail the pass: the list is left out, and the pass fetches the resolved
\* IPv4 list, installs its prefixes and returns nil.
C14_V6ResolutionFailureTolerated ==
    /\ [](\A o \in Owners : C14_Installs(o))
    /\ [][\A o \in Owners : C14_ResolveV6(o)]_vars

C14_Witness ==
    \E o \in Owners :
        /\ V6Omitted(o)
        /\ pass[o].pc = "ret"
        /\ pass[o].describes >= 1
        /\ pass[o].installed
        /\ Len(current) > 0

\* C15: entries with an absent or malformed Cidr are skipped without an
\* error. A pass that was served k >= 1 distinct well-formed texts, and
\* any number of malformed entries, and no failed request, returns nil and
\* has installed exactly the k prefixes of those texts; while it runs, the
\* prefixes it has accumulated are those of the well-formed texts served.
C15_MalformedSkipped ==
    \A o \in Owners :
        /\ pass[o].all = ParsedInOrder(pass[o].served)
        /\ (pass[o].pc = "ret" /\ pass[o].err \notin {"config", "fetch"}
              /\ Len(pass[o].served) > 0)
            => /\ pass[o].err = "none"
               /\ pass[o].installed
               /\ Len(current) = Len(pass[o].served)

C15_Witness ==
    \E o \in Owners :
        /\ pass[o].pc = "ret"
        /\ pass[o].malformed
        /\ pass[o].err = "none"
        /\ pass[o].installed
        /\ Len(pass[o].served) = 2
        /\ Len(current) = 2

\* C16: once Provision has normalized the configuration the refresh
\* interval is positive, whatever the raw value was, and the refresher's
\* ticker is never created with a non-positive period.
C16_RefreshPositive ==
    /\ hostPc # "new" => cfg.Refresh > 0
    /\ panicked # PanicTicker

C18_Requests(o) ==
    /\ pass[o].pc = "entries"
        => pass[o].sent = IF pass[o].pages = 1 THEN NilPtr
                          ELSE ToString(pass[o].pages)
    /\ pass[o].pc = "fetch"
        => pass[o].pageToken = IF pass[o].pages = 0 THEN ""
                               ELSE ToString(pass[o].pages + 1)
    /\ Len(pass[o].ids) <= 2
    /\ Len(pass[o].ids) = 2
        => (pass[o].ids[1] # "pl-v6" /\ pass[o].ids[2] = "pl-v6")

\* After a page the loop asks for the next page of the same list with a
\* token that is neither absent nor empty, or leaves the list: for the
\* next list, or for the end of the loop.
C18_AfterPage(o) ==
    (pass[o].pc = "entries" /\ pass'[o].pc # "entries")
    => \/ /\ pass'[o].pc = "fetch"
          /\ pass'[o].idx = pass[o].idx
          /\ pass'[o].pages = pass[o].pages
          /\ pass'[o].pageToken \notin {NilPtr, ""}
       \/ /\ pass'[o].pc = "fetch"
          /\ pass'[o].idx = pass[o].idx + 1
          /\ pass'[o].pages = 0
       \/ /\ pass'[o].pc = "final"
          /\ pass[o].idx = Len(pass[o].ids)

\* What a pass installed is the prefixes of the texts served over all
\* pages of all lists, each once, in the order of first receipt.
C18_Installed(o) ==
    (pass[o].pc = "ret" /\ pass[o].installed)
        => current = ParsedInOrder(pass[o].served)

\* C18: each resolved list is fetched page by page, from a request
\* without a token, with each returned token passed to the next request,
\* up to the first page whose token is absent or empty; a pass that
\* succeeds installs the concatenation of all pages of all lists, IPv4
\* list first, without the repeated texts, in first-seen order.
C18_PagesInOrder ==
    /\ [](\A o \in Owners : C18_Requests(o) /\ C18_Installed(o))
    /\ [][\A o \in Owners : C18_AfterPage(o)]_vars

C18_Witness ==
    \E o \in Owners :
        /\ pass[o].pc = "ret"
        /\ pass[o].installed
        /\ Len(pass[o].ids) = 1
        /\ Len(current) > MaxPageEntries
        /\ ~pass[o].malformed

\* C19: once the published list is non-empty it stays non-empty: no step
\* of a pass, of the refresher or of the host takes a non-empty published
\* list to an empty one.
C19_NonEmptyStaysNonEmpty == [][current # <<>> => current' # <<>>]_vars

C19_Witness ==
    /\ current # <<>>
    /\ loopPc = "pass"
    /\ pass["loop"].pc = "ret"
    /\ Len(pass["loop"].all) = 0
    /\ pass["loop"].err = "none"
    /\ pass["loop"].describes > 0
    /\ ~cfg.RequireNonEmpty

\* The refresher returns only from a select that found stopCh closed.
C20_ExitOnlyOnStop ==
    (loopPc # "exited" /\ loopPc' = "exited")
        => (loopPc = "select" /\ stopCh = "closed")

\* C20: once stopCh is closed the refresher returns at some time, with
\* fair scheduling and with the pass in flight returning, unless a panic
\* has ended the process with it first; and it returns for no other
\* reason: not after a failed pass, not after an empty one.
C20_StopEndsLoop ==
    /\ (stopCh = "closed") ~> (loopPc = "exited" \/ ~Alive)
    /\ [][C20_ExitOnlyOnStop]_vars

C20_Witness ==
    /\ stopCh = "closed"
    /\ loopPc = "exited"
    /\ Alive
    /\ tickPending
    /\ current # <<>>

====
